---- MODULE Spec2Model ----
(***************************************************************************)
(* ChatDT: the Analyst agent (src/analyst.py), which turns the raw         *)
(* statistics of a football match into the ChatDT Performance Score (CPS), *)
(* a comparison of the two teams and a textual verdict.                    *)
(*                                                                         *)
(* Numbers.  Python floats are modelled as exact decimal fixed-point       *)
(* integers:                                                               *)
(*   - a statistic value is counted in tenths       (55.0  is 550),        *)
(*   - a weight is counted in hundredths            (0.02  is 2),          *)
(*   - a score (statistic * weight) in thousandths  (5.0   is 5000),       *)
(*   - round(x, 2) yields hundredths, the ".1f" format yields tenths.      *)
(* Python's None is the empty sequence, a present value v is <<v>>.        *)
(*                                                                         *)
(* The Scout agent's API-FOOTBALL methods with their on-disk cache         *)
(* (src/scout.py) and the four-node pipeline (src/main.py) are modelled    *)
(* further down, over the files of data/raw and data/reports.              *)
(***************************************************************************)
EXTENDS Integers, Sequences, FiniteSets, TLC

VARIABLES
    WEIGHTS,    \* the class attribute AnalystAgent.WEIGHTS (one dict for the class)
    agents,     \* the AnalystAgent instances built so far: agents[i] is the
                \* `weights` argument that instance i was constructed with
    ret,        \* the call in progress at the caller: its arguments and result
    cache,      \* the files of data/raw: cache key |-> JSON content
    reports,    \* the files of data/reports: the fixture ids with a report
    run         \* the pipeline run in progress: the graph's position and state

vars == <<WEIGHTS, agents, ret, cache, reports, run>>

(***************************************************************************)
(* Bounds                                                                  *)
(***************************************************************************)
MaxAgents == 2      \* instances constructed in one run
MaxStats == 2       \* keys present in a record handed to calculate_cps

(***************************************************************************)
(* Python values                                                           *)
(***************************************************************************)
None == <<>>
Some(v) == <<v>>
IsNone(o) == o = <<>>
Val(o) == o[1]

(***************************************************************************)
(* The weight table                                                        *)
(***************************************************************************)
ThreatKeys == {"shots_on_goal", "shots_inside_box", "shots_outside_box",
               "corner_kicks", "offsides"}
ControlKeys == {"possession", "pass_accuracy", "total_passes"}
FrictionKeys == {"fouls", "yellow_cards", "red_cards"}
WeightKeys == ThreatKeys \cup ControlKeys \cup FrictionKeys

\* The class-level default of AnalystAgent.WEIGHTS, in hundredths.
DefaultWeights ==
    [k \in WeightKeys |->
        CASE k = "shots_on_goal" -> 300
          [] k = "shots_inside_box" -> 200
          [] k = "shots_outside_box" -> 50
          [] k = "corner_kicks" -> 100
          [] k = "offsides" -> -30
          [] k = "possession" -> 40
          [] k = "pass_accuracy" -> 50
          [] k = "total_passes" -> 2
          [] k = "fouls" -> -50
          [] k = "yellow_cards" -> -300
          [] k = "red_cards" -> -1000]

\* dict.update: the keys of o replace or extend those of w.
DictUpdate(w, o) ==
    [k \in (DOMAIN w) \cup (DOMAIN o) |-> IF k \in DOMAIN o THEN o[k] ELSE w[k]]

\* Variant: an absent key counts as one unit.
Get_DefaultOne(d, k) == IF k \in DOMAIN d THEN d[k] ELSE 10

\* dict.get(k, 0)
Get(d, k) == IF k \in DOMAIN d THEN d[k] ELSE 0

\* The `weights` arguments the constructor is called with: None (or an empty
\* dict, equally falsy), a partial table overriding one weight of the threat
\* and one of the friction index, or a full table.
NoWeights == <<>>
PartialOverride == [k \in {"corner_kicks", "fouls"} |-> IF k = "fouls" THEN -100 ELSE 250]
FullOverride == [k \in WeightKeys |-> IF k \in FrictionKeys THEN -200 ELSE 150]
OverrideTables == {NoWeights, PartialOverride, FullOverride}

\* Tables overriding a single weight, one of each sub-score.
SingleOverrides ==
    { [k \in {"corner_kicks"} |-> 250],
      [k \in {"possession"} |-> 100],
      [k \in {"fouls"} |-> -100] }

\* AnalystAgent.__init__: the table that self.WEIGHTS names after construction
\* with `weights`, given the table W it named before.  self.WEIGHTS is the
\* class attribute (the instance never assigns it), so update() mutates the
\* one dict shared by the class and all its instances.
InitWeights(W, weights) ==
    IF weights # NoWeights THEN DictUpdate(W, weights) ELSE W

\* self.WEIGHTS as instance i reads it: attribute lookup falls through to
\* the class attribute.
SelfWeights(i) == WEIGHTS

(***************************************************************************)
(* calculate_cps                                                           *)
(***************************************************************************)
\* Clean statistic records handed to calculate_cps: any subset of at most
\* MaxStats keys, weighted or not, present.
StatKeys == WeightKeys \cup {"total_shots"}
StatValues == {0, 25}
StatRecords ==
    UNION { [D -> StatValues] : D \in {S \in SUBSET StatKeys : Cardinality(S) <= MaxStats} }

Threat(W, stats) ==
    Get(stats, "shots_on_goal") * W["shots_on_goal"] +
    Get(stats, "shots_inside_box") * W["shots_inside_box"] +
    Get(stats, "shots_outside_box") * W["shots_outside_box"] +
    Get(stats, "corner_kicks") * W["corner_kicks"] +
    Get(stats, "offsides") * W["offsides"]

Control(W, stats) ==
    Get(stats, "possession") * W["possession"] +
    Get(stats, "pass_accuracy") * W["pass_accuracy"] +
    Get(stats, "total_passes") * W["total_passes"]

Friction(W, stats) ==
    Get(stats, "fouls") * W["fouls"] +
    Get(stats, "yellow_cards") * W["yellow_cards"] +
    Get(stats, "red_cards") * W["red_cards"]

\* The CPSBreakdown dataclass.
CPSBreakdown(threat, control, friction, total) ==
    [threat |-> threat, control |-> control, friction |-> friction, total |-> total]

\* Variant: the total leaves the friction index out.
calculate_cps_NoFriction(W, stats) ==
    LET threat == Threat(W, stats)
        control == Control(W, stats)
        friction == Friction(W, stats)
        total == threat + control
    IN CPSBreakdown(threat, control, friction, total)

calculate_cps(W, stats) ==
    LET threat == Threat(W, stats)
        control == Control(W, stats)
        friction == Friction(W, stats)
        total == threat + control + friction
    IN CPSBreakdown(threat, control, friction, total)

(***************************************************************************)
(* Strings.  A raw value or a provider label is a sequence of one-character *)
(* strings, so that replace/strip/float/lower can be computed on it.       *)
(***************************************************************************)
Digits == {"0", "1", "2", "3", "4", "5", "6", "7", "8", "9"}

DigitVal(c) ==
    CASE c = "0" -> 0 [] c = "1" -> 1 [] c = "2" -> 2 [] c = "3" -> 3
      [] c = "4" -> 4 [] c = "5" -> 5 [] c = "6" -> 6 [] c = "7" -> 7
      [] c = "8" -> 8 [] c = "9" -> 9

\* str.replace(old, new) for one-character old and new ("" deletes).
RECURSIVE Replace(_, _, _)
Replace(s, old, new) ==
    IF s = <<>> THEN <<>>
    ELSE (IF Head(s) = old THEN (IF new = "" THEN <<>> ELSE <<new>>) ELSE <<Head(s)>>)
         \o Replace(Tail(s), old, new)

\* str.strip()
RECURSIVE LStrip(_)
LStrip(s) == IF s # <<>> /\ Head(s) = " " THEN LStrip(Tail(s)) ELSE s
RECURSIVE RStrip(_)
RStrip(s) == IF s # <<>> /\ s[Len(s)] = " " THEN RStrip(SubSeq(s, 1, Len(s) - 1)) ELSE s
Strip(s) == RStrip(LStrip(s))

AllDigits(s) == \A i \in 1..Len(s) : s[i] \in Digits

RECURSIVE NatOf(_)
NatOf(s) == IF s = <<>> THEN 0 ELSE NatOf(SubSeq(s, 1, Len(s) - 1)) * 10 + DigitVal(s[Len(s)])

\* float(s) of an unsigned decimal literal, in tenths; None is ValueError.
\* Literals carry at most one fractional digit (the unit of a statistic).
UnsignedFloat(s) ==
    LET dots == {i \in 1..Len(s) : s[i] = "."}
    IN  IF dots = {}
        THEN IF s # <<>> /\ AllDigits(s) THEN Some(NatOf(s) * 10) ELSE None
        ELSE IF Cardinality(dots) > 1 THEN None
        ELSE LET p == CHOOSE i \in dots : TRUE
                 ip == SubSeq(s, 1, p - 1)
                 fp == SubSeq(s, p + 1, Len(s))
             IN  IF AllDigits(ip) /\ AllDigits(fp) /\ Len(ip) + Len(fp) > 0 /\ Len(fp) <= 1
                 THEN Some(NatOf(ip) * 10 + NatOf(fp))
                 ELSE None

\* float(s): optional sign, then an unsigned literal.
Float(s) ==
    IF s # <<>> /\ Head(s) \in {"+", "-"}
    THEN LET u == UnsignedFloat(Tail(s))
         IN  IF IsNone(u) THEN None
             ELSE IF Head(s) = "-" THEN Some(0 - Val(u)) ELSE u
    ELSE UnsignedFloat(s)

\* "".join(s)
RECURSIVE Join(_)
Join(s) == IF s = <<>> THEN "" ELSE Head(s) \o Join(Tail(s))

UpperCase == {"A", "B", "C", "D", "E", "F", "G", "H", "I", "J", "K", "L", "M",
              "N", "O", "P", "Q", "R", "S", "T", "U", "V", "W", "X", "Y", "Z"}
LowerChar(c) ==
    CASE c = "A" -> "a" [] c = "B" -> "b" [] c = "C" -> "c" [] c = "D" -> "d"
      [] c = "E" -> "e" [] c = "F" -> "f" [] c = "G" -> "g" [] c = "H" -> "h"
      [] c = "I" -> "i" [] c = "J" -> "j" [] c = "K" -> "k" [] c = "L" -> "l"
      [] c = "M" -> "m" [] c = "N" -> "n" [] c = "O" -> "o" [] c = "P" -> "p"
      [] c = "Q" -> "q" [] c = "R" -> "r" [] c = "S" -> "s" [] c = "T" -> "t"
      [] c = "U" -> "u" [] c = "V" -> "v" [] c = "W" -> "w" [] c = "X" -> "x"
      [] c = "Y" -> "y" [] c = "Z" -> "z" [] OTHER -> c
\* str.lower()
Lower(s) == [i \in 1..Len(s) |-> LowerChar(s[i])]

(***************************************************************************)
(* parse_statistics and _clean_stat_value                                  *)
(***************************************************************************)
\* Raw values of the provider: null, a number (in tenths), a string.
RawNull == [t |-> "null"]
RawNum(v) == [t |-> "num", v |-> v]
RawStr(s) == [t |-> "str", s |-> s]

\* Variant: the "%" is left in the string.
_clean_stat_value_KeepPercent(value) ==
    IF value.t = "null" THEN 0
    ELSE IF value.t = "str"
    THEN LET cleaned == Strip(value.s)
             f == Float(cleaned)
         IN  IF IsNone(f) THEN 0 ELSE Val(f)
    ELSE value.v

\* Variant: int(value) in place of float(value).
_clean_stat_value_Truncating(value) ==
    IF value.t = "null" THEN 0
    ELSE IF value.t = "str"
    THEN LET cleaned == Strip(Replace(value.s, "%", ""))
             f == Float(cleaned)
         IN  IF IsNone(f) THEN 0 ELSE Val(f)
    ELSE (value.v \div 10) * 10

_clean_stat_value(value) ==
    IF value.t = "null" THEN 0
    ELSE IF value.t = "str"
    THEN LET cleaned == Strip(Replace(value.s, "%", ""))
             f == Float(cleaned)
         IN  IF IsNone(f) THEN 0 ELSE Val(f)
    ELSE value.v

\* The class attribute STAT_MAPPING.
STAT_MAPPING ==
    ("Shots on Goal" :> "shots_on_goal") @@
    ("Shots off Goal" :> "shots_off_goal") @@
    ("Total Shots" :> "total_shots") @@
    ("Blocked Shots" :> "blocked_shots") @@
    ("Shots insidebox" :> "shots_inside_box") @@
    ("Shots outsidebox" :> "shots_outside_box") @@
    ("Fouls" :> "fouls") @@
    ("Corner Kicks" :> "corner_kicks") @@
    ("Offsides" :> "offsides") @@
    ("Ball Possession" :> "possession") @@
    ("Yellow Cards" :> "yellow_cards") @@
    ("Red Cards" :> "red_cards") @@
    ("Goalkeeper Saves" :> "goalkeeper_saves") @@
    ("Total passes" :> "total_passes") @@
    ("Passes accurate" :> "passes_accurate") @@
    ("Passes %" :> "pass_accuracy")

\* Variant: an unknown label keeps its spaces.
InternalName_KeepSpaces(stat_type) ==
    IF Join(stat_type) \in DOMAIN STAT_MAPPING
    THEN STAT_MAPPING[Join(stat_type)]
    ELSE Join(Lower(stat_type))

\* STAT_MAPPING.get(stat_type, stat_type.lower().replace(" ", "_"))
InternalName(stat_type) ==
    IF Join(stat_type) \in DOMAIN STAT_MAPPING
    THEN STAT_MAPPING[Join(stat_type)]
    ELSE Join(Replace(Lower(stat_type), " ", "_"))

\* The inner loop of parse_statistics over one block's "statistics" list.
RECURSIVE ParseEntries(_, _)
ParseEntries(rec, entries) ==
    IF entries = <<>> THEN rec
    ELSE LET stat == Head(entries)
             clean_value == _clean_stat_value(stat.value)
             internal_name == InternalName(stat.type)
         IN  ParseEntries(DictUpdate(rec, internal_name :> clean_value), Tail(entries))

\* The outer loop of parse_statistics from block i on: block 0 fills "home",
\* every later block fills "away".
RECURSIVE ParseBlocks(_, _, _)
ParseBlocks(result, blocks, i) ==
    IF blocks = <<>> THEN result
    ELSE LET team_stats == Head(blocks)
             key == IF i = 0 THEN "home" ELSE "away"
             team_name == IF IsNone(team_stats.team) THEN key ELSE Val(team_stats.team)
             filled == ParseEntries(result[key], team_stats.statistics)
             named == DictUpdate(filled, "team_name" :> team_name)
         IN  ParseBlocks([result EXCEPT ![key] = named], Tail(blocks), i + 1)

\* stats_data is None or a list of blocks.
parse_statistics(stats_data) ==
    LET result == [home |-> <<>>, away |-> <<>>]
    IN  IF IsNone(stats_data) \/ Len(Val(stats_data)) < 2
        THEN result
        ELSE ParseBlocks(result, Val(stats_data), 0)

(***************************************************************************)
(* Rounding.  round(x, 2) and the ".1f" format round to the nearest unit;  *)
(* on a decimal tie the binary value of the float decides, so the          *)
(* direction of a tie is an input (up) of the call.                        *)
(***************************************************************************)
Abs(x) == IF x < 0 THEN 0 - x ELSE x

\* x rounded to the nearest multiple of unit, counted in that unit.
RoundTo(x, unit, up) ==
    LET q == x \div unit
        r == x % unit
    IN  IF 2 * r < unit THEN q
        ELSE IF 2 * r > unit THEN q + 1
        ELSE IF up THEN q + 1 ELSE q

\* round(x, 2) of a score in thousandths: hundredths.
Round2(x, up) == RoundTo(x, 10, up)
\* f"{x:.1f}" of a score in thousandths: tenths.
Fmt1(x, up) == RoundTo(x, 100, up)

\* Variant: the display form cuts the third decimal instead of rounding.
to_dict_Truncated(cps, up) ==
    [threat |-> cps.threat \div 10, control |-> cps.control \div 10,
     friction |-> cps.friction \div 10, total |-> cps.total \div 10]

\* CPSBreakdown.to_dict
to_dict(cps, up) ==
    [threat |-> Round2(cps.threat, up), control |-> Round2(cps.control, up),
     friction |-> Round2(cps.friction, up), total |-> Round2(cps.total, up)]

(***************************************************************************)
(* The comparison and the verdict                                          *)
(***************************************************************************)
TiedSentinel == "Empate tecnico"

\* Variant: the "claramente" band includes a difference of exactly 5.
Compare_ClearAt5(diff, home_team, away_team) ==
    IF diff >= 5000 THEN [better_team |-> home_team, dominance |-> "claramente"]
    ELSE IF diff > 2000 THEN [better_team |-> home_team, dominance |-> "ligeramente"]
    ELSE IF diff <= -5000 THEN [better_team |-> away_team, dominance |-> "claramente"]
    ELSE IF diff < -2000 THEN [better_team |-> away_team, dominance |-> "ligeramente"]
    ELSE [better_team |-> TiedSentinel, dominance |-> ""]

\* Variant: the "ligeramente" band includes a difference of exactly 2.
Compare_SlightAt2(diff, home_team, away_team) ==
    IF diff > 5000 THEN [better_team |-> home_team, dominance |-> "claramente"]
    ELSE IF diff >= 2000 THEN [better_team |-> home_team, dominance |-> "ligeramente"]
    ELSE IF diff < -5000 THEN [better_team |-> away_team, dominance |-> "claramente"]
    ELSE IF diff <= -2000 THEN [better_team |-> away_team, dominance |-> "ligeramente"]
    ELSE [better_team |-> TiedSentinel, dominance |-> ""]

\* Variant: the away side is "claramente" better from a difference of 5 on.
Compare_AwayClearAt5(diff, home_team, away_team) ==
    IF diff > 5000 THEN [better_team |-> home_team, dominance |-> "claramente"]
    ELSE IF diff > 2000 THEN [better_team |-> home_team, dominance |-> "ligeramente"]
    ELSE IF diff <= -5000 THEN [better_team |-> away_team, dominance |-> "claramente"]
    ELSE IF diff < -2000 THEN [better_team |-> away_team, dominance |-> "ligeramente"]
    ELSE [better_team |-> TiedSentinel, dominance |-> ""]

\* The if/elif chain of analyze_match on diff = home.total - away.total
\* (thousandths): the better team and the dominance label.
Compare(diff, home_team, away_team) ==
    IF diff > 5000 THEN [better_team |-> home_team, dominance |-> "claramente"]
    ELSE IF diff > 2000 THEN [better_team |-> home_team, dominance |-> "ligeramente"]
    ELSE IF diff < -5000 THEN [better_team |-> away_team, dominance |-> "claramente"]
    ELSE IF diff < -2000 THEN [better_team |-> away_team, dominance |-> "ligeramente"]
    ELSE [better_team |-> TiedSentinel, dominance |-> ""]

\* Variant: the difference keeps its sign.
Comparison_Signed(home_cps, away_cps, home_team, away_team, up) ==
    LET diff == home_cps.total - away_cps.total
        c == Compare(diff, home_team, away_team)
    IN  [home_score |-> Round2(home_cps.total, up),
         away_score |-> Round2(away_cps.total, up),
         difference |-> Round2(diff, up),
         better_team |-> c.better_team,
         dominance |-> c.dominance]

\* The comparison dict of analyze_match; the scores are in hundredths.
Comparison(home_cps, away_cps, home_team, away_team, up) ==
    LET diff == home_cps.total - away_cps.total
        c == Compare(diff, home_team, away_team)
    IN  [home_score |-> Round2(home_cps.total, up),
         away_score |-> Round2(away_cps.total, up),
         difference |-> Round2(Abs(diff), up),
         better_team |-> c.better_team,
         dominance |-> c.dominance]

\* The five verdict texts and the fallback, each with the values its
\* f-string interpolates (numbers as printed, in tenths).
DeservedWin(winner, winner_cps, diff) ==
    [text |-> "gano y merecio el triunfo", winner |-> winner,
     cps |-> winner_cps, diff |-> diff]
CloseGame(winner, diff) ==
    [text |-> "Partido parejo", winner |-> winner, diff |-> diff]
UnjustResult(better, better_cps, diff, winner) ==
    [text |-> "Resultado injusto!", better |-> better, cps |-> better_cps,
     diff |-> diff, winner |-> winner]
FairDraw == [text |-> "Empate justo"]
UndersoldDraw(better, diff) ==
    [text |-> "Empate con sabor a poco", better |-> better, diff |-> diff]
Fallback == [text |-> "Analisis completado."]

\* Truth value of `winner`: None and the empty string are falsy.
Truthy(winner) == ~IsNone(winner) /\ Val(winner) # ""

\* Variant: the tied-comparison case of a won match is missing.
_generate_verdict_NoCloseGame(match_info, comparison, home_cps, away_cps, up) ==
    LET home == match_info.home_team
        away == match_info.away_team
        home_goals == Val(match_info.home_goals)
        away_goals == Val(match_info.away_goals)
        winner == IF home_goals > away_goals THEN Some(home)
                  ELSE IF away_goals > home_goals THEN Some(away)
                  ELSE None
        winner_cps == IF home_goals > away_goals THEN home_cps.total
                      ELSE IF away_goals > home_goals THEN away_cps.total
                      ELSE 0
        better == comparison.better_team
        diff == comparison.difference * 10
        better_cps == IF better = home THEN home_cps.total ELSE away_cps.total
    IN  IF Truthy(winner) /\ Val(winner) = better
        THEN DeservedWin(Val(winner), Fmt1(winner_cps, up), Fmt1(diff, up))
        ELSE IF Truthy(winner) /\ Val(winner) # better /\ better # TiedSentinel
        THEN UnjustResult(better, Fmt1(better_cps, up), Fmt1(diff, up), Val(winner))
        ELSE IF ~Truthy(winner)
        THEN IF better = TiedSentinel
             THEN FairDraw
             ELSE UndersoldDraw(better, Fmt1(diff, up))
        ELSE Fallback

\* Variant: the winner's CPS is always read from the home team.
_generate_verdict_HomeCps(match_info, comparison, home_cps, away_cps, up) ==
    LET home == match_info.home_team
        away == match_info.away_team
        home_goals == Val(match_info.home_goals)
        away_goals == Val(match_info.away_goals)
        winner == IF home_goals > away_goals THEN Some(home)
                  ELSE IF away_goals > home_goals THEN Some(away)
                  ELSE None
        winner_cps == IF home_goals # away_goals THEN home_cps.total ELSE 0
        better == comparison.better_team
        diff == comparison.difference * 10
        better_cps == IF better = home THEN home_cps.total ELSE away_cps.total
    IN  IF Truthy(winner) /\ Val(winner) = better
        THEN DeservedWin(Val(winner), Fmt1(winner_cps, up), Fmt1(diff, up))
        ELSE IF Truthy(winner) /\ better = TiedSentinel
        THEN CloseGame(Val(winner), Fmt1(diff, up))
        ELSE IF Truthy(winner) /\ Val(winner) # better /\ better # TiedSentinel
        THEN UnjustResult(better, Fmt1(better_cps, up), Fmt1(diff, up), Val(winner))
        ELSE IF ~Truthy(winner)
        THEN IF better = TiedSentinel
             THEN FairDraw
             ELSE UndersoldDraw(better, Fmt1(diff, up))
        ELSE Fallback

\* Variant: the unjust-result text cites the winner's CPS.
_generate_verdict_WinnerCps(match_info, comparison, home_cps, away_cps, up) ==
    LET home == match_info.home_team
        away == match_info.away_team
        home_goals == Val(match_info.home_goals)
        away_goals == Val(match_info.away_goals)
        winner == IF home_goals > away_goals THEN Some(home)
                  ELSE IF away_goals > home_goals THEN Some(away)
                  ELSE None
        winner_cps == IF home_goals > away_goals THEN home_cps.total
                      ELSE IF away_goals > home_goals THEN away_cps.total
                      ELSE 0
        better == comparison.better_team
        diff == comparison.difference * 10
        better_cps == IF better = home THEN home_cps.total ELSE away_cps.total
    IN  IF Truthy(winner) /\ Val(winner) = better
        THEN DeservedWin(Val(winner), Fmt1(winner_cps, up), Fmt1(diff, up))
        ELSE IF Truthy(winner) /\ better = TiedSentinel
        THEN CloseGame(Val(winner), Fmt1(diff, up))
        ELSE IF Truthy(winner) /\ Val(winner) # better /\ better # TiedSentinel
        THEN UnjustResult(better, Fmt1(winner_cps, up), Fmt1(diff, up), Val(winner))
        ELSE IF ~Truthy(winner)
        THEN IF better = TiedSentinel
             THEN FairDraw
             ELSE UndersoldDraw(better, Fmt1(diff, up))
        ELSE Fallback

\* Variant: a draw is fair only when the difference is zero.
_generate_verdict_ZeroDiff(match_info, comparison, home_cps, away_cps, up) ==
    LET home == match_info.home_team
        away == match_info.away_team
        home_goals == Val(match_info.home_goals)
        away_goals == Val(match_info.away_goals)
        winner == IF home_goals > away_goals THEN Some(home)
                  ELSE IF away_goals > home_goals THEN Some(away)
                  ELSE None
        winner_cps == IF home_goals > away_goals THEN home_cps.total
                      ELSE IF away_goals > home_goals THEN away_cps.total
                      ELSE 0
        better == comparison.better_team
        diff == comparison.difference * 10
        better_cps == IF better = home THEN home_cps.total ELSE away_cps.total
    IN  IF Truthy(winner) /\ Val(winner) = better
        THEN DeservedWin(Val(winner), Fmt1(winner_cps, up), Fmt1(diff, up))
        ELSE IF Truthy(winner) /\ better = TiedSentinel
        THEN CloseGame(Val(winner), Fmt1(diff, up))
        ELSE IF Truthy(winner) /\ Val(winner) # better /\ better # TiedSentinel
        THEN UnjustResult(better, Fmt1(better_cps, up), Fmt1(diff, up), Val(winner))
        ELSE IF ~Truthy(winner)
        THEN IF comparison.difference = 0
             THEN FairDraw
             ELSE UndersoldDraw(better, Fmt1(diff, up))
        ELSE Fallback

\* Variant: the undersold draw always names the home team.
_generate_verdict_DrawHome(match_info, comparison, home_cps, away_cps, up) ==
    LET home == match_info.home_team
        away == match_info.away_team
        home_goals == Val(match_info.home_goals)
        away_goals == Val(match_info.away_goals)
        winner == IF home_goals > away_goals THEN Some(home)
                  ELSE IF away_goals > home_goals THEN Some(away)
                  ELSE None
        winner_cps == IF home_goals > away_goals THEN home_cps.total
                      ELSE IF away_goals > home_goals THEN away_cps.total
                      ELSE 0
        better == comparison.better_team
        diff == comparison.difference * 10
        better_cps == IF better = home THEN home_cps.total ELSE away_cps.total
    IN  IF Truthy(winner) /\ Val(winner) = better
        THEN DeservedWin(Val(winner), Fmt1(winner_cps, up), Fmt1(diff, up))
        ELSE IF Truthy(winner) /\ better = TiedSentinel
        THEN CloseGame(Val(winner), Fmt1(diff, up))
        ELSE IF Truthy(winner) /\ Val(winner) # better /\ better # TiedSentinel
        THEN UnjustResult(better, Fmt1(better_cps, up), Fmt1(diff, up), Val(winner))
        ELSE IF ~Truthy(winner)
        THEN IF better = TiedSentinel
             THEN FairDraw
             ELSE UndersoldDraw(home, Fmt1(diff, up))
        ELSE Fallback

\* Variant: the close-game text always names the home team.
_generate_verdict_CloseHome(match_info, comparison, home_cps, away_cps, up) ==
    LET home == match_info.home_team
        away == match_info.away_team
        home_goals == Val(match_info.home_goals)
        away_goals == Val(match_info.away_goals)
        winner == IF home_goals > away_goals THEN Some(home)
                  ELSE IF away_goals > home_goals THEN Some(away)
                  ELSE None
        winner_cps == IF home_goals > away_goals THEN home_cps.total
                      ELSE IF away_goals > home_goals THEN away_cps.total
                      ELSE 0
        better == comparison.better_team
        diff == comparison.difference * 10
        better_cps == IF better = home THEN home_cps.total ELSE away_cps.total
    IN  IF Truthy(winner) /\ Val(winner) = better
        THEN DeservedWin(Val(winner), Fmt1(winner_cps, up), Fmt1(diff, up))
        ELSE IF Truthy(winner) /\ better = TiedSentinel
        THEN CloseGame(home, Fmt1(diff, up))
        ELSE IF Truthy(winner) /\ Val(winner) # better /\ better # TiedSentinel
        THEN UnjustResult(better, Fmt1(better_cps, up), Fmt1(diff, up), Val(winner))
        ELSE IF ~Truthy(winner)
        THEN IF better = TiedSentinel
             THEN FairDraw
             ELSE UndersoldDraw(better, Fmt1(diff, up))
        ELSE Fallback

\* _generate_verdict; the goals are numbers here (a None goal makes the
\* first comparison raise, see analyze_match).
_generate_verdict(match_info, comparison, home_cps, away_cps, up) ==
    LET home == match_info.home_team
        away == match_info.away_team
        home_goals == Val(match_info.home_goals)
        away_goals == Val(match_info.away_goals)
        winner == IF home_goals > away_goals THEN Some(home)
                  ELSE IF away_goals > home_goals THEN Some(away)
                  ELSE None
        winner_cps == IF home_goals > away_goals THEN home_cps.total
                      ELSE IF away_goals > home_goals THEN away_cps.total
                      ELSE 0
        better == comparison.better_team
        diff == comparison.difference * 10
        better_cps == IF better = home THEN home_cps.total ELSE away_cps.total
    IN  IF Truthy(winner) /\ Val(winner) = better
        THEN DeservedWin(Val(winner), Fmt1(winner_cps, up), Fmt1(diff, up))
        ELSE IF Truthy(winner) /\ better = TiedSentinel
        THEN CloseGame(Val(winner), Fmt1(diff, up))
        ELSE IF Truthy(winner) /\ Val(winner) # better /\ better # TiedSentinel
        THEN UnjustResult(better, Fmt1(better_cps, up), Fmt1(diff, up), Val(winner))
        ELSE IF ~Truthy(winner)
        THEN IF better = TiedSentinel
             THEN FairDraw
             ELSE UndersoldDraw(better, Fmt1(diff, up))
        ELSE Fallback

(***************************************************************************)
(* analyze_match                                                           *)
(***************************************************************************)
Raised(e) == [raised |-> TRUE, error |-> e]

\* data is the match record: data.fixture is None or the fixture with its
\* team names (None when the key is absent) and goals (None when null);
\* data.statistics is None or the list of team blocks.
analyze_match(W, data, up) ==
    IF IsNone(data.fixture)
    THEN Raised("AttributeError")   \* fixture.get on None
    ELSE
    LET fixture == Val(data.fixture)
        match_info ==
            [home_team |-> IF IsNone(fixture.home_name) THEN "Home" ELSE Val(fixture.home_name),
             away_team |-> IF IsNone(fixture.away_name) THEN "Away" ELSE Val(fixture.away_name),
             home_goals |-> fixture.home_goals,
             away_goals |-> fixture.away_goals]
        stats == parse_statistics(data.statistics)
        home_cps == calculate_cps(W, stats.home)
        away_cps == calculate_cps(W, stats.away)
        comparison == Comparison(home_cps, away_cps, match_info.home_team,
                                 match_info.away_team, up)
    IN  IF IsNone(match_info.home_goals) \/ IsNone(match_info.away_goals)
        THEN Raised("TypeError")    \* home_goals > away_goals on None
        ELSE [raised |-> FALSE,
              match_info |-> match_info,
              stats |-> stats,
              cps_scores |-> [home |-> to_dict(home_cps, up), away |-> to_dict(away_cps, up)],
              home_cps |-> home_cps,
              away_cps |-> away_cps,
              comparison |-> comparison,
              verdict |-> _generate_verdict(match_info, comparison, home_cps, away_cps, up)]

(***************************************************************************)
(* Match records handed to analyze_match                                   *)
(***************************************************************************)
MaxGoals == 1       \* goals of one team
MaxBlocks == 2      \* team blocks in a statistics payload

Chars(n) ==
    CASE n = "Corner Kicks" -> <<"C", "o", "r", "n", "e", "r", " ", "K", "i", "c", "k", "s">>
      [] n = "Passes %" -> <<"P", "a", "s", "s", "e", "s", " ", "%">>
      [] n = "Total passes" -> <<"T", "o", "t", "a", "l", " ", "p", "a", "s", "s", "e", "s">>
      [] n = "Expected Goals" -> <<"E", "x", "p", "e", "c", "t", "e", "d", " ", "G", "o", "a", "l", "s">>
      [] n = "Fouls" -> <<"F", "o", "u", "l", "s">>
      [] n = "Ball Possession" -> <<"B", "a", "l", "l", " ", "P", "o", "s", "s", "e", "s", "s", "i", "o", "n">>

Stat(label, value) == [type |-> Chars(label), value |-> value]

\* The "statistics" lists of a team block: corner kicks worth 0, 2, 5 and 6
\* points under the default weights, given as null, number or string, next
\* to an unparsable value, an unknown label, a percentage and a padded string.
StatLists ==
    { <<>>,
      << Stat("Corner Kicks", RawNull), Stat("Expected Goals", RawStr(<<"N", "/", "A">>)) >>,
      << Stat("Corner Kicks", RawNum(20)) >>,
      << Stat("Corner Kicks", RawStr(<<"5">>)) >>,
      << Stat("Corner Kicks", RawNum(30)), Stat("Corner Kicks", RawNum(60)) >>,
      << Stat("Passes %", RawStr(<<"8", "7", ".", "5", "%">>)),
         Stat("Total passes", RawStr(<<" ", "1", "2", ".", "3">>)) >> }

TeamBlocks == { [team |-> None, statistics |-> l] : l \in StatLists }

RECURSIVE SeqsUpTo(_, _)
SeqsUpTo(S, n) ==
    IF n = 0 THEN {<<>>}
    ELSE LET shorter == SeqsUpTo(S, n - 1)
         IN  shorter \cup {Append(q, x) : q \in {t \in shorter : Len(t) = n - 1}, x \in S}

Payloads == {None} \cup {Some(q) : q \in SeqsUpTo(TeamBlocks, MaxBlocks)}

Goals == {Some(g) : g \in 0..MaxGoals}

\* The fixture is None (the request failed), or names both teams with any
\* goals, or has null goals (a match not played), or lacks the team names.
Fixture(hn, an, hg, ag) ==
    Some([home_name |-> hn, away_name |-> an, home_goals |-> hg, away_goals |-> ag])
Fixtures ==
    {None} \cup
    { Fixture(Some("Boca Juniors"), Some("River Plate"), hg, ag) : hg \in Goals, ag \in Goals } \cup
    { Fixture(Some("Boca Juniors"), Some("River Plate"), None, None),
      Fixture(Some("Boca Juniors"), Some("River Plate"), Some(0), None),
      Fixture(None, None, Some(1), Some(0)) }

MatchRecords == { [fixture |-> f, statistics |-> p] : f \in Fixtures, p \in Payloads }

(***************************************************************************)
(* The state machine                                                       *)
(***************************************************************************)
Idle == [op |-> "idle"]

\* No pipeline run is in progress.
NoRun == [node |-> "none"]

\* A fresh process on a fresh checkout: the class-level weights, no agent,
\* no call, empty data/raw and data/reports.
Init ==
    /\ WEIGHTS = DefaultWeights
    /\ agents = <<>>
    /\ ret = Idle
    /\ cache = <<>>
    /\ reports = {}
    /\ run = NoRun

\* analyst = AnalystAgent(weights)
NewAgent(weights) ==
    /\ ret = Idle
    /\ Len(agents) < MaxAgents
    /\ WEIGHTS' = InitWeights(WEIGHTS, weights)
    /\ agents' = Append(agents, weights)
    /\ UNCHANGED <<ret, cache, reports, run>>

\* agents[i].calculate_cps(stats)
CalculateCps(i, stats) ==
    /\ ret = Idle
    /\ ret' = [op |-> "calculate_cps", self |-> i, stats |-> stats,
               cps |-> calculate_cps(SelfWeights(i), stats)]
    /\ UNCHANGED <<WEIGHTS, agents, cache, reports, run>>

\* agents[i].analyze_match(data)
AnalyzeMatch(i, data, up) ==
    /\ ret = Idle
    /\ ret' = [op |-> "analyze_match", self |-> i, data |-> data,
               result |-> analyze_match(SelfWeights(i), data, up)]
    /\ UNCHANGED <<WEIGHTS, agents, cache, reports, run>>

\* The caller is done with the result: nothing is retained between calls.
Release ==
    /\ ret # Idle
    /\ ret' = Idle
    /\ UNCHANGED <<WEIGHTS, agents, cache, reports, run>>

\* A call starts only when the caller holds no result, which is tested before
\* the inputs are drawn.
Next ==
    \/ \E weights \in OverrideTables : NewAgent(weights)
    \/ ret = Idle /\ \E i \in 1..Len(agents), stats \in StatRecords : CalculateCps(i, stats)
    \/ ret = Idle /\ \E i \in 1..Len(agents), data \in MatchRecords, up \in BOOLEAN :
            AnalyzeMatch(i, data, up)
    \/ Release

Spec == Init /\ [][Next]_vars

\* The agents built with a single overridden weight, and their scores.
NextFrame ==
    \/ \E weights \in SingleOverrides : NewAgent(weights)
    \/ ret = Idle /\ \E i \in 1..Len(agents), stats \in StatRecords : CalculateCps(i, stats)
    \/ Release

SpecFrame == Init /\ [][NextFrame]_vars

(***************************************************************************)
(* The comparison applied to pairs of totals                               *)
(***************************************************************************)
\* Totals of a breakdown, in thousandths, on both sides of the 2 and 5 bands.
Totals == {-3000, 0, 1000, 2000, 2001, 2005, 4621, 5000, 5001, 7000, 8000}

\* The comparison block of analyze_match for two breakdowns with these totals.
CompareTotals(home_total, away_total, up) ==
    /\ ret = Idle
    /\ ret' = [op |-> "comparison", home_total |-> home_total,
               away_total |-> away_total, up |-> up,
               comparison |-> Comparison(CPSBreakdown(0, 0, 0, home_total),
                                         CPSBreakdown(0, 0, 0, away_total),
                                         "Home", "Away", up)]
    /\ UNCHANGED <<WEIGHTS, agents, cache, reports, run>>

NextCompare ==
    \/ ret = Idle /\ \E home_total \in Totals, away_total \in Totals, up \in BOOLEAN :
            CompareTotals(home_total, away_total, up)
    \/ Release

SpecCompare == Init /\ [][NextCompare]_vars

(***************************************************************************)
(* The cleaning and parsing functions applied to raw provider data         *)
(***************************************************************************)
DigitChar(n) ==
    CASE n = 0 -> "0" [] n = 1 -> "1" [] n = 2 -> "2" [] n = 3 -> "3"
      [] n = 4 -> "4" [] n = 5 -> "5" [] n = 6 -> "6" [] n = 7 -> "7"
      [] n = 8 -> "8" [] n = 9 -> "9"

RECURSIVE NatChars(_)
NatChars(n) ==
    IF n < 10 THEN <<DigitChar(n)>>
    ELSE NatChars(n \div 10) \o <<DigitChar(n % 10)>>

\* The decimal literal the provider writes for a non-negative number of
\* tenths: "55" for 55.0, "87.5" for 87.5.
Literal(v) ==
    NatChars(v \div 10) \o (IF v % 10 = 0 THEN <<>> ELSE <<".", DigitChar(v % 10)>>)

\* The ways a literal reaches _clean_stat_value inside a string.
Decorations == {"plain", "percent", "padded", "spaced_percent", "plus"}
Decorate(d, s) ==
    CASE d = "plain" -> s
      [] d = "percent" -> s \o <<"%">>
      [] d = "padded" -> <<" ">> \o s \o <<" ">>
      [] d = "spaced_percent" -> <<" ">> \o s \o <<" ", "%">>
      [] d = "plus" -> <<"+">> \o s

\* Numbers of statistics, in tenths.
Numbers == {0, 5, 30, 123, 550, 875, 1000}

\* Strings float() rejects.
Unparsable ==
    { <<"N", "/", "A">>, <<>>, <<" ">>, <<"%">>, <<"-">>, <<".">>,
      <<"1", ".", "2", ".", "3">>, <<"5", " ", "5">>, <<"1", ",", "5">>,
      <<"a", "b", "c">> }

RawValues ==
    {RawNull}
    \cup {RawNum(v) : v \in Numbers \cup {-30}}
    \cup {RawStr(Decorate(d, Literal(v))) : d \in Decorations, v \in Numbers}
    \cup {RawStr(<<"-">> \o Literal(v)) : v \in Numbers}
    \cup {RawStr(s) : s \in Unparsable}

\* Labels of the provider: four of STAT_MAPPING and one it does not list.
Labels == {"Corner Kicks", "Passes %", "Fouls", "Ball Possession", "Expected Goals"}

\* Values that are a number, a numeric string, a percentage string or null.
NumericValues ==
    {RawNull, RawNum(30), RawNum(-30), RawStr(<<"5", "5", "%">>), RawStr(<<"1", ".", "5">>)}
ParseValues == NumericValues \cup {RawStr(<<"N", "/", "A">>)}

\* "statistics" lists: empty, one entry, or the same label twice.
ParseLists ==
    {<<>>}
    \cup {<<Stat(l, v)>> : l \in Labels, v \in ParseValues}
    \cup {<<Stat("Fouls", RawNum(30)), Stat("Fouls", RawStr(<<"5", "5", "%">>))>>}

ParseBlocksIn ==
    {[team |-> None, statistics |-> l] : l \in ParseLists}
    \cup {[team |-> Some("Boca Juniors"), statistics |-> <<Stat("Fouls", RawNum(30))>>]}

ParsePayloads == {None} \cup {Some(q) : q \in SeqsUpTo(ParseBlocksIn, MaxBlocks)}

CleanStatValue(value) ==
    /\ ret = Idle
    /\ ret' = [op |-> "_clean_stat_value", value |-> value,
               out |-> _clean_stat_value(value)]
    /\ UNCHANGED <<WEIGHTS, agents, cache, reports, run>>

ParseStatistics(stats_data) ==
    /\ ret = Idle
    /\ ret' = [op |-> "parse_statistics", stats_data |-> stats_data,
               result |-> parse_statistics(stats_data)]
    /\ UNCHANGED <<WEIGHTS, agents, cache, reports, run>>

NextParse ==
    \/ ret = Idle /\ \E value \in RawValues : CleanStatValue(value)
    \/ ret = Idle /\ \E stats_data \in ParsePayloads : ParseStatistics(stats_data)
    \/ Release

SpecParse == Init /\ [][NextParse]_vars

(***************************************************************************)
(* The Scout agent: API-FOOTBALL requests behind the cache of data/raw     *)
(***************************************************************************)
MaxFixtures == 2    \* fixture ids known to the provider
MaxLimit == 2       \* the limit argument of get_last_matches

FixtureIds == 1..MaxFixtures
Limits == 1..MaxLimit
\* Team ids of the two clubs the repository's examples use.
Boca == 451
River == 435

\* The cache keys f"match_full_{fixture_id}", f"matches_team_{team_id}_s{season}"
\* (one season per agent) and f"h2h_{team1_id}_vs_{team2_id}".
MatchKey(fixture_id) == <<"match_full", fixture_id>>
TeamKey(team_id) == <<"matches_team", team_id>>
H2HKey(team1_id, team2_id) == <<"h2h", team1_id, team2_id>>

\* json.dump and json.load of what the methods cache: an optional value is
\* written as null or as the value, a match record as an object, a list of
\* matches as an array.
ToJson(o) == IF IsNone(o) THEN [j |-> "null"] ELSE [j |-> "value", v |-> Val(o)]
FromJson(x) == IF x.j = "null" THEN None ELSE Some(x.v)
MatchFields == {"fixture", "statistics", "events", "lineups", "predictions"}
DumpMatch(match_data) ==
    [j |-> "object", fixture_id |-> match_data.fixture_id,
     fields |-> [f \in MatchFields |-> ToJson(match_data[f])]]
LoadMatch(content) ==
    [fixture_id |-> content.fixture_id,
     fixture |-> FromJson(content.fields["fixture"]),
     statistics |-> FromJson(content.fields["statistics"]),
     events |-> FromJson(content.fields["events"]),
     lineups |-> FromJson(content.fields["lineups"]),
     predictions |-> FromJson(content.fields["predictions"])]
DumpList(matches) == [j |-> "array", items |-> matches]
LoadList(content) == content.items

\* _load_cache: the content of the file, None when there is no file.
_load_cache(files, name) == IF name \in DOMAIN files THEN Some(files[name]) ELSE None
\* _save_cache: the file is opened with 'w', created or truncated.
_save_cache(files, name, content) == DictUpdate(files, name :> content)

\* What the five requests of get_match_stats answer: a field is None when
\* its request failed (_api_request returned None) or its response is empty.
Answers(fixture, statistics, events, lineups, predictions) ==
    [fixture |-> fixture, statistics |-> statistics, events |-> events,
     lineups |-> lineups, predictions |-> predictions]
Played == Fixture(Some("Boca Juniors"), Some("River Plate"), Some(1), Some(0))
NotPlayed == Fixture(Some("Boca Juniors"), Some("River Plate"), None, None)
TwoBlocks ==
    Some(<< [team |-> None,
             statistics |-> <<Stat("Corner Kicks", RawNum(30)), Stat("Corner Kicks", RawNum(60))>>],
            [team |-> None, statistics |-> <<Stat("Corner Kicks", RawNum(20))>>] >>)
AllFailed == Answers(None, None, None, None, None)
ApiAnswers ==
    { AllFailed,
      Answers(Played, TwoBlocks, Some(<<"Goal", "Card">>), Some(<<"4-3-3", "4-4-2">>), Some(<<"winner">>)),
      Answers(Played, TwoBlocks, None, None, Some(<<"winner">>)),
      Answers(Played, None, Some(<<"Goal">>), None, None),
      Answers(NotPlayed, None, None, None, Some(<<"winner">>)) }

\* Variant: the assembled record is not written.
get_match_stats_NoSave(files, fixture_id, use_cache, api) ==
    LET cache_key == MatchKey(fixture_id)
        cached == IF use_cache THEN _load_cache(files, cache_key) ELSE None
    IN  IF ~IsNone(cached)
        THEN [files |-> files, data |-> LoadMatch(Val(cached)), requests |-> 0]
        ELSE LET match_data ==
                     [fixture_id |-> fixture_id, fixture |-> api.fixture,
                      statistics |-> api.statistics, events |-> api.events,
                      lineups |-> api.lineups, predictions |-> api.predictions]
             IN  [files |-> files, data |-> match_data, requests |-> 5]

\* get_match_stats: the new files, the record returned and the number of
\* API requests issued.
get_match_stats(files, fixture_id, use_cache, api) ==
    LET cache_key == MatchKey(fixture_id)
        cached == IF use_cache THEN _load_cache(files, cache_key) ELSE None
    IN  IF ~IsNone(cached)      \* a loaded record has keys, so it is truthy
        THEN [files |-> files, data |-> LoadMatch(Val(cached)), requests |-> 0]
        ELSE LET match_data ==
                     [fixture_id |-> fixture_id, fixture |-> api.fixture,
                      statistics |-> api.statistics, events |-> api.events,
                      lineups |-> api.lineups, predictions |-> api.predictions]
             IN  [files |-> _save_cache(files, cache_key, DumpMatch(match_data)),
                  data |-> match_data, requests |-> 5]

\* list[:limit] for limit >= 0
Slice(list, limit) == SubSeq(list, 1, IF limit < Len(list) THEN limit ELSE Len(list))

\* The matches the /fixtures request lists: None when the request failed,
\* else the response list (possibly empty) of the first n fixtures.
FirstMatches(n) == [i \in 1..n |-> [id |-> i]]
ListResponses == {None} \cup {Some(FirstMatches(n)) : n \in 0..MaxFixtures}

\* get_last_matches: the cached list is cut to limit, the fetched list is
\* returned whole.
get_last_matches(files, team_id, limit, use_cache, response) ==
    LET cache_key == TeamKey(team_id)
        cached == IF use_cache THEN _load_cache(files, cache_key) ELSE None
    IN  IF ~IsNone(cached) /\ LoadList(Val(cached)) # <<>>
        THEN [files |-> files, matches |-> Slice(LoadList(Val(cached)), limit), requests |-> 0]
        ELSE IF IsNone(response) \/ Val(response) = <<>>
        THEN [files |-> files, matches |-> <<>>, requests |-> 1]
        ELSE [files |-> _save_cache(files, cache_key, DumpList(Val(response))),
              matches |-> Val(response), requests |-> 1]

\* get_head_to_head
get_head_to_head(files, team1_id, team2_id, use_cache, response) ==
    LET cache_key == H2HKey(team1_id, team2_id)
        cached == IF use_cache THEN _load_cache(files, cache_key) ELSE None
    IN  IF ~IsNone(cached) /\ LoadList(Val(cached)) # <<>>
        THEN [files |-> files, matches |-> LoadList(Val(cached)), requests |-> 0]
        ELSE IF IsNone(response) \/ Val(response) = <<>>
        THEN [files |-> files, matches |-> <<>>, requests |-> 1]
        ELSE [files |-> _save_cache(files, cache_key, DumpList(Val(response))),
              matches |-> Val(response), requests |-> 1]

\* scout.get_match_stats(fixture_id, use_cache)
GetMatchStats(fixture_id, use_cache, api) ==
    LET r == get_match_stats(cache, fixture_id, use_cache, api)
    IN  /\ ret = Idle
        /\ cache' = r.files
        /\ ret' = [op |-> "get_match_stats", fixture_id |-> fixture_id,
                   use_cache |-> use_cache, requests |-> r.requests,
                   answers |-> IF r.requests = 0 THEN None ELSE Some(api),
                   data |-> r.data]
        /\ UNCHANGED <<WEIGHTS, agents, reports, run>>

\* scout.get_last_matches(team_id, limit, use_cache)
GetLastMatches(team_id, limit, use_cache, response) ==
    LET r == get_last_matches(cache, team_id, limit, use_cache, response)
    IN  /\ ret = Idle
        /\ cache' = r.files
        /\ ret' = [op |-> "get_last_matches", team_id |-> team_id, limit |-> limit,
                   use_cache |-> use_cache, requests |-> r.requests,
                   matches |-> r.matches]
        /\ UNCHANGED <<WEIGHTS, agents, reports, run>>

\* scout.get_head_to_head(team1_id, team2_id, use_cache)
GetHeadToHead(team1_id, team2_id, use_cache, response) ==
    LET r == get_head_to_head(cache, team1_id, team2_id, use_cache, response)
    IN  /\ ret = Idle
        /\ cache' = r.files
        /\ ret' = [op |-> "get_head_to_head", use_cache |-> use_cache,
                   requests |-> r.requests, matches |-> r.matches]
        /\ UNCHANGED <<WEIGHTS, agents, reports, run>>

NextScout ==
    \/ ret = Idle /\ \E fixture_id \in FixtureIds, use_cache \in BOOLEAN, api \in ApiAnswers :
            GetMatchStats(fixture_id, use_cache, api)
    \/ ret = Idle /\ \E limit \in Limits, use_cache \in BOOLEAN, response \in ListResponses :
            GetLastMatches(Boca, limit, use_cache, response)
    \/ ret = Idle /\ \E use_cache \in BOOLEAN, response \in ListResponses :
            GetHeadToHead(Boca, River, use_cache, response)
    \/ Release

SpecScout == Init /\ [][NextScout]_vars

(***************************************************************************)
(* The pipeline of main.py: scout -> analyst -> visualizer -> writer       *)
(***************************************************************************)
\* The initial AgentState of main().
InitialState(fixture_id, team_id) ==
    [fixture_id |-> fixture_id, team_id |-> team_id,
     raw_data |-> None, match_info |-> None,
     analysis |-> None, cps_scores |-> None,
     visualization_path |-> None,
     report_markdown |-> None, report_path |-> None,
     errors |-> <<>>, status |-> "starting"]

\* What a node leaves: it raised, or it returned this state; and the files
\* of data/raw after it.
Outcome(raised, state, files) == [raised |-> raised, state |-> state, files |-> files]

\* return {**state, "errors": errors, "status": "error"}
WithError(state, message) ==
    [state EXCEPT !.errors = Append(@, message), !.status = "error"]

\* The second half of node_scout, "Extraer match_info": fixture.get raises
\* AttributeError when the record's fixture is null.
ExtractMatchInfo(state, fixture_id, raw_data, files) ==
    IF IsNone(raw_data.fixture)
    THEN Outcome(TRUE, state, files)
    ELSE LET fixture == Val(raw_data.fixture)
             match_info ==
                 [fixture_id |-> fixture_id,
                  home_team |-> IF IsNone(fixture.home_name) THEN "Home" ELSE Val(fixture.home_name),
                  away_team |-> IF IsNone(fixture.away_name) THEN "Away" ELSE Val(fixture.away_name),
                  home_goals |-> fixture.home_goals,
                  away_goals |-> fixture.away_goals]
         IN  Outcome(FALSE,
                     [state EXCEPT !.fixture_id = fixture_id,
                                   !.raw_data = Some(raw_data),
                                   !.match_info = Some(match_info),
                                   !.status = "scout_complete"],
                     files)

\* The fixture ids with a file match_full_*.json in data/raw.
CachedFixtures(files) == {i \in FixtureIds : MatchKey(i) \in DOMAIN files}

\* Variant: a fetch from the API is reported in errors.
node_scout_WarnOnFetch(state, files, api, response, pick) ==
    IF ~IsNone(state.fixture_id)
    THEN LET fixture_id == Val(state.fixture_id)
         IN  IF MatchKey(fixture_id) \in DOMAIN files
             THEN ExtractMatchInfo(state, Some(fixture_id),
                                   LoadMatch(files[MatchKey(fixture_id)]), files)
             ELSE LET r == get_match_stats(files, fixture_id, TRUE, api)
                  IN  ExtractMatchInfo([state EXCEPT !.errors = Append(@, "fetched")],
                                       Some(fixture_id), r.data, r.files)
    ELSE IF ~IsNone(state.team_id)
    THEN LET l == get_last_matches(files, Val(state.team_id), 1, TRUE, response)
         IN  IF l.matches # <<>>
             THEN LET fixture_id == l.matches[1].id
                      r == get_match_stats(l.files, fixture_id, TRUE, api)
                  IN  ExtractMatchInfo(state, Some(fixture_id), r.data, r.files)
             ELSE Outcome(FALSE, WithError(state, "No se encontraron partidos"), l.files)
    ELSE IF CachedFixtures(files) # {}
    THEN LET raw_data == LoadMatch(files[MatchKey(pick)])
         IN  ExtractMatchInfo(state, Some(raw_data.fixture_id), raw_data, files)
    ELSE Outcome(FALSE, WithError(state, "No se especifico fixture_id ni team_id"), files)

\* node_scout.  api and response are what the provider answers if asked;
\* pick is the file the glob lists first when no id was given.
node_scout(state, files, api, response, pick) ==
    IF ~IsNone(state.fixture_id)
    THEN LET fixture_id == Val(state.fixture_id)
         IN  IF MatchKey(fixture_id) \in DOMAIN files
             THEN ExtractMatchInfo(state, Some(fixture_id),
                                   LoadMatch(files[MatchKey(fixture_id)]), files)
             ELSE LET r == get_match_stats(files, fixture_id, TRUE, api)
                  IN  ExtractMatchInfo(state, Some(fixture_id), r.data, r.files)
    ELSE IF ~IsNone(state.team_id)
    THEN LET l == get_last_matches(files, Val(state.team_id), 1, TRUE, response)
         IN  IF l.matches # <<>>
             THEN LET fixture_id == l.matches[1].id
                      r == get_match_stats(l.files, fixture_id, TRUE, api)
                  IN  ExtractMatchInfo(state, Some(fixture_id), r.data, r.files)
             ELSE Outcome(FALSE, WithError(state, "No se encontraron partidos"), l.files)
    ELSE IF CachedFixtures(files) # {}
    THEN LET raw_data == LoadMatch(files[MatchKey(pick)])
         IN  ExtractMatchInfo(state, Some(raw_data.fixture_id), raw_data, files)
    ELSE Outcome(FALSE, WithError(state, "No se especifico fixture_id ni team_id"), files)

\* The file data/raw/match_full_<fixture_id>.json as the analyst and the
\* visualizer open it: None when it does not exist (FileNotFoundError).
MatchFile(state, files) ==
    IF IsNone(state.fixture_id) THEN None
    ELSE _load_cache(files, MatchKey(Val(state.fixture_id)))

\* analyze_match on the loaded file; the agent is built with no weights.
AnalysisOf(W, content, up) ==
    LET data == LoadMatch(content)
    IN  analyze_match(W, [fixture |-> data.fixture, statistics |-> data.statistics], up)

\* node_analyst
node_analyst(state, files, W, up) ==
    IF IsNone(state.raw_data)
    THEN Outcome(FALSE, WithError(state, "No hay raw_data para analizar"), files)
    ELSE IF IsNone(MatchFile(state, files))
    THEN Outcome(TRUE, state, files)
    ELSE LET analysis == AnalysisOf(W, Val(MatchFile(state, files)), up)
         IN  IF analysis.raised
             THEN Outcome(TRUE, state, files)
             ELSE Outcome(FALSE,
                          [state EXCEPT !.analysis = Some(analysis),
                                        !.cps_scores = Some(analysis.cps_scores),
                                        !.status = "analyst_complete"],
                          files)

\* node_visualizer: create_match_report opens the file, reads the fixture,
\* analyses the match again and draws.
node_visualizer(state, files, W) ==
    IF IsNone(MatchFile(state, files))
    THEN Outcome(TRUE, state, files)
    ELSE IF AnalysisOf(W, Val(MatchFile(state, files)), TRUE).raised
    THEN Outcome(TRUE, state, files)
    ELSE Outcome(FALSE,
                 [state EXCEPT !.visualization_path = state.fixture_id,
                               !.status = "visualizer_complete"],
                 files)

\* A report: it raised, or this text (named by its kind).
Report(raised, text) == [raised |-> raised, text |-> text]

\* generate_basic_report: .get on match_info, analysis and cps_scores.
generate_basic_report(state) ==
    IF IsNone(state.match_info) \/ IsNone(state.analysis) \/ IsNone(state.cps_scores)
    THEN Report(TRUE, "")
    ELSE Report(FALSE, "basic")

\* What get_llm_client and llm.invoke do in generate_llm_report.
LlmOutcomes == {"text", "no_client", "client_raises", "invoke_raises"}

\* generate_llm_report: the events are read before the client is created,
\* and only llm.invoke is inside the try.
generate_llm_report(state, llm) ==
    IF IsNone(state.match_info) \/ IsNone(state.analysis) \/ IsNone(state.cps_scores)
       \/ IsNone(state.raw_data)
    THEN Report(TRUE, "")
    ELSE IF IsNone(Val(state.raw_data).events)
    THEN Report(TRUE, "")           \* for e in events: TypeError
    ELSE IF llm = "client_raises" THEN Report(TRUE, "")
    ELSE IF llm = "no_client" THEN generate_basic_report(state)
    ELSE IF llm = "invoke_raises" THEN generate_basic_report(state)
    ELSE Report(FALSE, "llm")

\* node_writer: the state it returns; the report is written to
\* report_<fixture_id>.md before it returns.
node_writer(state, files, has_key, llm) ==
    LET report == IF has_key THEN generate_llm_report(state, llm)
                  ELSE generate_basic_report(state)
    IN  IF report.raised
        THEN Outcome(TRUE, state, files)
        ELSE Outcome(FALSE,
                     [state EXCEPT !.report_markdown = Some(report.text),
                                   !.report_path = Some(state.fixture_id),
                                   !.status = "complete"],
                     files)

\* Variant: the writer leads back to the scout.
NextNode_Loop(node) ==
    CASE node = "scout" -> "analyst"
      [] node = "analyst" -> "visualizer"
      [] node = "visualizer" -> "writer"
      [] node = "writer" -> "scout"

\* The edges of build_graph.
NextNode(node) ==
    CASE node = "scout" -> "analyst"
      [] node = "analyst" -> "visualizer"
      [] node = "visualizer" -> "writer"
      [] node = "writer" -> "end"

\* app.invoke after a node: an exception ends the run, a returned state is
\* handed to the next node.
Advance(r, node, o) ==
    IF o.raised
    THEN [r EXCEPT !.node = "failed", !.executed = Append(@, node)]
    ELSE [r EXCEPT !.node = NextNode(node), !.state = o.state,
                   !.executed = Append(@, node),
                   !.statuses = Append(@, o.state.status)]

\* python main.py [--fixture id] [--team id]
RunFixtures == {None} \cup {Some(i) : i \in FixtureIds}
RunTeams == {None, Some(Boca)}
StartRun(fixture_id, team_id) ==
    /\ run = NoRun
    /\ run' = [node |-> "scout", state |-> InitialState(fixture_id, team_id),
               executed |-> <<>>, statuses |-> <<"starting">>]
    /\ UNCHANGED <<WEIGHTS, agents, ret, cache, reports>>

NodeScout(api, response, pick) ==
    /\ run.node = "scout"
    /\ (IsNone(run.state.fixture_id) /\ IsNone(run.state.team_id)
            /\ CachedFixtures(cache) # {}) => pick \in CachedFixtures(cache)
    /\ LET o == node_scout(run.state, cache, api, response, pick)
       IN  /\ cache' = o.files
           /\ run' = Advance(run, "scout", o)
    /\ UNCHANGED <<WEIGHTS, agents, ret, reports>>

NodeAnalyst(up) ==
    /\ run.node = "analyst"
    /\ run' = Advance(run, "analyst", node_analyst(run.state, cache, WEIGHTS, up))
    /\ UNCHANGED <<WEIGHTS, agents, ret, cache, reports>>

NodeVisualizer ==
    /\ run.node = "visualizer"
    /\ run' = Advance(run, "visualizer", node_visualizer(run.state, cache, WEIGHTS))
    /\ UNCHANGED <<WEIGHTS, agents, ret, cache, reports>>

NodeWriter(has_key, llm) ==
    /\ run.node = "writer"
    /\ LET o == node_writer(run.state, cache, has_key, llm)
       IN  /\ run' = Advance(run, "writer", o)
           /\ reports' = IF o.raised THEN reports ELSE reports \cup {run.state.fixture_id}
    /\ UNCHANGED <<WEIGHTS, agents, ret, cache>>

\* The process exits, after END or with the exception.
FinishRun ==
    /\ run.node \in {"end", "failed"}
    /\ run' = NoRun
    /\ UNCHANGED <<WEIGHTS, agents, ret, cache, reports>>

NextPipeline ==
    \/ \E fixture_id \in RunFixtures, team_id \in RunTeams : StartRun(fixture_id, team_id)
    \/ run.node = "scout" /\ \E api \in ApiAnswers, response \in ListResponses, pick \in FixtureIds :
            NodeScout(api, response, pick)
    \/ \E up \in BOOLEAN : NodeAnalyst(up)
    \/ NodeVisualizer
    \/ \E has_key \in BOOLEAN, llm \in LlmOutcomes : NodeWriter(has_key, llm)
    \/ FinishRun

SpecPipeline == Init /\ [][NextPipeline]_vars

(***************************************************************************)
(* Properties                                                              *)
(***************************************************************************)
Scored == ret.op = "calculate_cps"
Analysed == ret.op = "analyze_match" /\ ~ret.result.raised
A == ret.result
HomeGoals == Val(A.match_info.home_goals)
AwayGoals == Val(A.match_info.away_goals)
HomeTeam == A.match_info.home_team
AwayTeam == A.match_info.away_team
\* the signed difference home.total - away.total, in thousandths
SignedDiff == A.home_cps.total - A.away_cps.total
HomeBetter == A.comparison.better_team = HomeTeam
AwayBetter == A.comparison.better_team = AwayTeam
Tied == A.comparison.better_team = TiedSentinel
\* a number printed with one decimal (tenths) shows the score x (thousandths)
Shows(printed, x) == Abs(printed * 100 - x) <= 50
\* the printed margin shows |home.total - away.total| after its rounding to
\* two decimals in the comparison
ShowsMargin(printed) ==
    /\ Abs(A.comparison.difference * 10 - Abs(SignedDiff)) <= 5
    /\ Shows(printed, A.comparison.difference * 10)

\* C1: an agent built with no overrides scores every record with the default
\* formula: threat = 3.0*shots_on_goal + 2.0*shots_inside_box +
\* 0.5*shots_outside_box + 1.0*corner_kicks - 0.3*offsides, control =
\* 0.4*possession + 0.5*pass_accuracy + 0.02*total_passes, friction =
\* -0.5*fouls - 3.0*yellow_cards - 10.0*red_cards.
C1_DefaultFormula ==
    (Scored /\ agents[ret.self] = NoWeights) =>
        LET s == ret.stats
        IN  /\ ret.cps.threat = 300 * Get(s, "shots_on_goal") + 200 * Get(s, "shots_inside_box")
                                + 50 * Get(s, "shots_outside_box") + 100 * Get(s, "corner_kicks")
                                - 30 * Get(s, "offsides")
            /\ ret.cps.control = 40 * Get(s, "possession") + 50 * Get(s, "pass_accuracy")
                                 + 2 * Get(s, "total_passes")
            /\ ret.cps.friction = 0 - 50 * Get(s, "fouls") - 300 * Get(s, "yellow_cards")
                                  - 1000 * Get(s, "red_cards")

\* C2: every agent scores with its own weight table, the defaults merged with
\* the overrides of its own constructor, whatever other agents were built.
C2_OwnWeightTable ==
    \A i \in 1..Len(agents) : SelfWeights(i) = DictUpdate(DefaultWeights, agents[i])

\* C3: for every record and every weight table, the total of the breakdown
\* returned by calculate_cps is threat + control + friction of that breakdown.
C3_TotalIsSum ==
    /\ Scored => ret.cps.total = ret.cps.threat + ret.cps.control + ret.cps.friction
    /\ Analysed =>
        \A c \in {A.home_cps, A.away_cps} : c.total = c.threat + c.control + c.friction
C3_Witness ==
    /\ Scored
    /\ WEIGHTS # DefaultWeights
    /\ ret.cps.threat # 0
    /\ ret.cps.friction # 0

\* C4: the comparison classifies d = home.total - away.total: d > 5 home
\* "claramente"; 2 < d <= 5 home "ligeramente"; d < -5 away "claramente";
\* -5 <= d < -2 away "ligeramente"; otherwise the tied sentinel with an empty
\* dominance label.
C4_Classification ==
    Analysed =>
        LET d == SignedDiff
            c == A.comparison
        IN  /\ d > 5000 => (HomeBetter /\ c.dominance = "claramente")
            /\ (2000 < d /\ d <= 5000) => (HomeBetter /\ c.dominance = "ligeramente")
            /\ d < -5000 => (AwayBetter /\ c.dominance = "claramente")
            /\ (-5000 <= d /\ d < -2000) => (AwayBetter /\ c.dominance = "ligeramente")
            /\ (-2000 <= d /\ d <= 2000) => (Tied /\ c.dominance = "")
C4_Witness ==
    /\ Analysed
    /\ SignedDiff = 5000
    /\ HomeBetter
    /\ A.comparison.dominance = "ligeramente"

\* C5 (as claimed): a difference of exactly 2, -2, 5 or -5 yields the tied
\* sentinel with no dominance label.
C5_EdgesTied ==
    (Analysed /\ SignedDiff \in {2000, -2000, 5000, -5000}) =>
        (Tied /\ A.comparison.dominance = "")
\* C5 (amended): a difference of exactly 2 or -2 yields the tied sentinel
\* with no dominance label; exactly 5 yields the home team and exactly -5
\* the away team, both "ligeramente".
C5_EdgesAmended ==
    Analysed =>
        /\ SignedDiff \in {2000, -2000} => (Tied /\ A.comparison.dominance = "")
        /\ SignedDiff = 5000 => (HomeBetter /\ A.comparison.dominance = "ligeramente")
        /\ SignedDiff = -5000 => (AwayBetter /\ A.comparison.dominance = "ligeramente")
C5_Witness ==
    /\ Analysed
    /\ SignedDiff = -5000
    /\ AwayBetter
    /\ A.comparison.dominance = "ligeramente"

\* C6: for every goal outcome and every comparison result the verdict is one
\* of the five verdict texts, never the fallback "Analisis completado.".
VerdictTexts ==
    {"gano y merecio el triunfo", "Partido parejo", "Resultado injusto!",
     "Empate justo", "Empate con sabor a poco"}
C6_VerdictTotal ==
    Analysed => (A.verdict.text \in VerdictTexts /\ A.verdict.text # "Analisis completado.")
C6_Witness ==
    /\ Analysed
    /\ AwayGoals > HomeGoals
    /\ Tied
    /\ A.verdict.text = "Partido parejo"

\* C7: when one team scored more goals and is also the better performer,
\* the verdict is the deserved-win text naming that team, its own total and
\* the margin |home.total - away.total|.
C7_DeservedWin ==
    Analysed =>
        /\ (HomeGoals > AwayGoals /\ HomeBetter) =>
            /\ A.verdict.text = "gano y merecio el triunfo"
            /\ A.verdict.winner = HomeTeam
            /\ Shows(A.verdict.cps, A.home_cps.total)
            /\ ShowsMargin(A.verdict.diff)
        /\ (AwayGoals > HomeGoals /\ AwayBetter) =>
            /\ A.verdict.text = "gano y merecio el triunfo"
            /\ A.verdict.winner = AwayTeam
            /\ Shows(A.verdict.cps, A.away_cps.total)
            /\ ShowsMargin(A.verdict.diff)
C7_Witness ==
    /\ Analysed
    /\ AwayGoals > HomeGoals
    /\ AwayBetter
    /\ A.verdict.text = "gano y merecio el triunfo"
    /\ A.verdict.winner = AwayTeam

\* C8: when one team won by goals and the comparison names the other team as
\* better, the verdict is the unjust-result text naming the better team with
\* that team's total and the margin, and naming the goal winner.
C8_UnjustResult ==
    Analysed =>
        /\ (AwayGoals > HomeGoals /\ HomeBetter) =>
            /\ A.verdict.text = "Resultado injusto!"
            /\ A.verdict.better = HomeTeam
            /\ Shows(A.verdict.cps, A.home_cps.total)
            /\ ShowsMargin(A.verdict.diff)
            /\ A.verdict.winner = AwayTeam
        /\ (HomeGoals > AwayGoals /\ AwayBetter) =>
            /\ A.verdict.text = "Resultado injusto!"
            /\ A.verdict.better = AwayTeam
            /\ Shows(A.verdict.cps, A.away_cps.total)
            /\ ShowsMargin(A.verdict.diff)
            /\ A.verdict.winner = HomeTeam
C8_Witness ==
    /\ Analysed
    /\ HomeGoals = 0 /\ AwayGoals = 1
    /\ HomeBetter
    /\ A.verdict.text = "Resultado injusto!"
    /\ A.verdict.winner = AwayTeam

\* C9: when the goals are equal and the comparison is the tied sentinel, the
\* verdict is the fair-draw text, never the unjust-result or the
\* undersold-draw text.
C9_FairDraw ==
    (Analysed /\ HomeGoals = AwayGoals /\ Tied) =>
        /\ A.verdict.text = "Empate justo"
        /\ A.verdict.text \notin {"Resultado injusto!", "Empate con sabor a poco"}
C9_Witness ==
    /\ Analysed
    /\ HomeGoals = 1 /\ AwayGoals = 1
    /\ Tied
    /\ SignedDiff < 0
    /\ A.verdict.text = "Empate justo"

\* C10: when the goals are equal and the comparison names a better performer,
\* the verdict is the undersold-draw text naming that team and the margin.
C10_UndersoldDraw ==
    (Analysed /\ HomeGoals = AwayGoals /\ ~Tied) =>
        /\ A.verdict.text = "Empate con sabor a poco"
        /\ A.verdict.better = (IF SignedDiff > 0 THEN HomeTeam ELSE AwayTeam)
        /\ ShowsMargin(A.verdict.diff)
C10_Witness ==
    /\ Analysed
    /\ HomeGoals = AwayGoals
    /\ AwayBetter
    /\ A.verdict.text = "Empate con sabor a poco"

\* C11: when one team won by goals and the comparison is the tied sentinel,
\* the verdict is the close-game text naming the goal winner and the margin,
\* never the deserved-win or the unjust-result text.
C11_CloseGame ==
    (Analysed /\ Tied) =>
        /\ HomeGoals > AwayGoals =>
            /\ A.verdict.text = "Partido parejo"
            /\ A.verdict.winner = HomeTeam
            /\ ShowsMargin(A.verdict.diff)
        /\ AwayGoals > HomeGoals =>
            /\ A.verdict.text = "Partido parejo"
            /\ A.verdict.winner = AwayTeam
            /\ ShowsMargin(A.verdict.diff)
        /\ HomeGoals # AwayGoals =>
            A.verdict.text \notin {"gano y merecio el triunfo", "Resultado injusto!"}
C11_Witness ==
    /\ Analysed
    /\ HomeGoals > AwayGoals
    /\ Tied
    /\ SignedDiff < 0
    /\ A.verdict.text = "Partido parejo"
    /\ A.verdict.winner = HomeTeam

\* C12: an override table passed to the constructor merges over the defaults
\* by key: after the construction every overridden key has the supplied
\* weight and every other key its default weight.
C12_MergeOverDefaults ==
    (Len(agents) > 0 /\ agents[Len(agents)] # NoWeights) =>
        LET weights == agents[Len(agents)]
        IN  \A k \in WeightKeys :
                SelfWeights(Len(agents))[k] =
                    IF k \in DOMAIN weights THEN weights[k] ELSE DefaultWeights[k]

\* C13: for an agent built with a single overridden weight, the two
\* sub-scores that do not use that weight equal those computed with the
\* default weights, for every record.
C13_SingleOverrideFrame ==
    (Scored /\ Cardinality(DOMAIN agents[ret.self]) = 1) =>
        LET k == CHOOSE key \in DOMAIN agents[ret.self] : TRUE
            d == calculate_cps(DefaultWeights, ret.stats)
        IN  /\ k \notin ThreatKeys => ret.cps.threat = d.threat
            /\ k \notin ControlKeys => ret.cps.control = d.control
            /\ k \notin FrictionKeys => ret.cps.friction = d.friction

\* The record with every missing weighted key set to 0; the all-zero breakdown.
ZeroFilled(stats) ==
    [k \in WeightKeys \cup DOMAIN stats |-> IF k \in DOMAIN stats THEN stats[k] ELSE 0]
ZeroBreakdown == [threat |-> 0, control |-> 0, friction |-> 0, total |-> 0]

\* C14: a record missing weighted keys scores the same as the record with
\* those keys set to 0, and the empty record scores 0 in every field.
C14_MissingIsZero ==
    Scored =>
        /\ ret.cps = calculate_cps(SelfWeights(ret.self), ZeroFilled(ret.stats))
        /\ ret.stats = <<>> => ret.cps = ZeroBreakdown
C14_Witness ==
    /\ Scored
    /\ "fouls" \in DOMAIN ret.stats
    /\ "possession" \notin DOMAIN ret.stats
    /\ ret.cps.friction # 0
    /\ ret.cps.control = 0

\* C15: analyze_match never raises, whatever match record the fetch layer
\* hands it (null fixture, null statistics, null goals included).
C15_NeverRaises ==
    ret.op = "analyze_match" => ~ret.result.raised

\* The statistics payload of the call is null or has fewer than two blocks.
ShortPayload ==
    IsNone(ret.data.statistics) \/ Len(Val(ret.data.statistics)) < 2

\* C16: with fewer than two team blocks (null, empty or one block)
\* parse_statistics returns two empty records and analyze_match yields
\* all-zero breakdowns, the tied sentinel with no dominance label and a
\* non-empty verdict.
C16_DegeneratePayload ==
    (ret.op = "analyze_match" /\ ShortPayload) =>
        /\ parse_statistics(ret.data.statistics) = [home |-> <<>>, away |-> <<>>]
        /\ ~ret.result.raised
        /\ A.stats = [home |-> <<>>, away |-> <<>>]
        /\ A.home_cps = ZeroBreakdown
        /\ A.away_cps = ZeroBreakdown
        /\ Tied
        /\ A.comparison.dominance = ""
        /\ A.verdict.text \in VerdictTexts

\* A call of _clean_stat_value or of parse_statistics has returned.
Cleaned == ret.op = "_clean_stat_value"
Parsed == ret.op = "parse_statistics"
IsText(s) == Cleaned /\ ret.value.t = "str" /\ ret.value.s = s

\* C17: _clean_stat_value maps null to 0, a string with "%" to the number
\* left after stripping it ("55%" gives 55.0), any other string to its
\* parsed float or to 0 when it cannot be parsed ("N/A" gives 0), and a
\* number to the same number.
C17_CleanValue ==
    Cleaned =>
        /\ ret.value.t = "null" => ret.out = 0
        /\ ret.value.t = "num" => ret.out = ret.value.v
        /\ IsText(<<"5", "5", "%">>) => ret.out = 550
        /\ IsText(<<"N", "/", "A">>) => ret.out = 0
        /\ \A v \in Numbers, d \in Decorations :
               IsText(Decorate(d, Literal(v))) => ret.out = v
        /\ \A v \in Numbers : IsText(<<"-">> \o Literal(v)) => ret.out = 0 - v
        /\ \A s \in Unparsable : IsText(s) => ret.out = 0
C17_Witness ==
    IsText(<<"5", "5", "%">>) /\ ret.out = 550

\* C18: cleaning is idempotent: cleaning the cleaned value of any raw value
\* gives the cleaned value again, and a number is returned unchanged.
C18_Idempotent ==
    Cleaned =>
        /\ _clean_stat_value(RawNum(ret.out)) = ret.out
        /\ ret.value.t = "num" => _clean_stat_value(ret.value) = ret.value.v
C18_Witness ==
    /\ IsText(<<" ", "8", "7", ".", "5", " ", "%">>)
    /\ ret.out = 875
    /\ _clean_stat_value(RawNum(ret.out)) = 875

\* The blocks of the parsed payload, the record block i fills, the key that
\* holds the team's name, and the internal names the labels are expected under.
PayloadBlocks == IF IsNone(ret.stats_data) THEN <<>> ELSE Val(ret.stats_data)
RecordOf(i) == IF i = 1 THEN ret.result.home ELSE ret.result.away
HoldsText(k) == k = "team_name"
NumericPayload ==
    \A i \in 1..Len(PayloadBlocks) :
        \A j \in 1..Len(PayloadBlocks[i].statistics) :
            PayloadBlocks[i].statistics[j].value \in NumericValues
ExpectedName ==
    ("Corner Kicks" :> "corner_kicks") @@
    ("Passes %" :> "pass_accuracy") @@
    ("Fouls" :> "fouls") @@
    ("Ball Possession" :> "possession") @@
    ("Expected Goals" :> "expected_goals")
NamesOf(i) ==
    { ExpectedName[Join(PayloadBlocks[i].statistics[j].type)] :
        j \in 1..Len(PayloadBlocks[i].statistics) }

\* C19: for a payload of two team blocks whose values are numbers, numeric
\* strings, percentage strings or nulls, every value stored in each record
\* parse_statistics returns is a number >= 0.
C19_FiniteNonNegative ==
    (Parsed /\ Len(PayloadBlocks) = 2 /\ NumericPayload) =>
        \A i \in 1..2 :
            \A k \in DOMAIN RecordOf(i) :
                ~HoldsText(k) /\ RecordOf(i)[k] >= 0

\* C20: parse_statistics rejects no statistic: a label of the lookup table
\* is stored under its canonical name, any other label lower-cased with
\* underscores for spaces; the first block fills the home record and the
\* second block the away record, each with the cleaned value of the entry.
C20_NeverRejects ==
    (Parsed /\ Len(PayloadBlocks) >= 2) =>
        /\ \A i \in 1..Len(PayloadBlocks) : NamesOf(i) \subseteq DOMAIN RecordOf(i)
        /\ Len(PayloadBlocks) = 2 =>
               \A i \in 1..2 :
                   LET entries == PayloadBlocks[i].statistics
                   IN  /\ DOMAIN RecordOf(i) = NamesOf(i) \cup {"team_name"}
                       /\ entries # <<>> =>
                              RecordOf(i)[ExpectedName[Join(entries[Len(entries)].type)]]
                                  = _clean_stat_value(entries[Len(entries)].value)
C20_Witness ==
    /\ Parsed /\ Len(PayloadBlocks) = 2
    /\ "expected_goals" \in DOMAIN RecordOf(1)
    /\ "corner_kicks" \in DOMAIN RecordOf(2)
    /\ "corner_kicks" \notin DOMAIN RecordOf(1)

\* d (hundredths) is x (thousandths) rounded to two decimals.
Nearest(d, x) == Abs(d * 10 - x) <= 5
BreakdownFields == {"threat", "control", "friction", "total"}

\* C21: analyze_match returns both forms of each breakdown and they agree:
\* every field of cps_scores and the comparison's home_score / away_score is
\* the unrounded field rounded to two decimals, and rounding the display
\* total to two decimals again returns it.
C21_DisplayAgrees ==
    Analysed =>
        /\ \A f \in BreakdownFields :
               /\ Nearest(A.cps_scores.home[f], A.home_cps[f])
               /\ Nearest(A.cps_scores.away[f], A.away_cps[f])
        /\ A.comparison.home_score = A.cps_scores.home.total
        /\ A.comparison.away_score = A.cps_scores.away.total
        /\ \A b \in BOOLEAN :
               /\ Round2(A.cps_scores.home.total * 10, b) = A.cps_scores.home.total
               /\ Round2(A.cps_scores.away.total * 10, b) = A.cps_scores.away.total
C21_Witness ==
    /\ Analysed
    /\ A.home_cps.total % 10 # 0
    /\ A.cps_scores.home.total * 10 # A.home_cps.total
    /\ A.comparison.home_score = A.cps_scores.home.total

Compared == ret.op = "comparison"
Exchanged ==
    Comparison(CPSBreakdown(0, 0, 0, ret.away_total),
               CPSBreakdown(0, 0, 0, ret.home_total), "Home", "Away", ret.up)

\* C30: the comparison is symmetric under swapping the teams: exchanging
\* the totals keeps the difference and the dominance label and exchanges
\* the better performer (home for away, tied stays tied).
C30_SwapSymmetric ==
    Compared =>
        /\ Exchanged.difference = ret.comparison.difference
        /\ Exchanged.dominance = ret.comparison.dominance
        /\ ret.comparison.better_team = "Home" <=> Exchanged.better_team = "Away"
        /\ ret.comparison.better_team = "Away" <=> Exchanged.better_team = "Home"
        /\ ret.comparison.better_team = TiedSentinel <=> Exchanged.better_team = TiedSentinel
C30_Witness ==
    /\ Compared
    /\ ret.home_total - ret.away_total = -5000
    /\ ret.comparison.better_team = "Away"
    /\ Exchanged.better_team = "Home"
    /\ ret.comparison.dominance = "ligeramente"

\* A call of get_match_stats (with use_cache enabled) or of get_last_matches
\* has returned.
Fetched == ret.op = "get_match_stats"
FetchedCached == Fetched /\ ret.use_cache
Listed == ret.op = "get_last_matches"
AllNull(data) == \A f \in MatchFields : IsNone(data[f])

\* C23: get_match_stats with use_cache enabled is read-if-present, else
\* fetch-and-write: an existing entry match_full_<id> is returned with no
\* API request, otherwise five requests are issued and the assembled record
\* is written under match_full_<id>; a second call for the same id returns
\* the same record as the first without any API request.
C23_ReadOrFetch ==
    /\ [][(ret = Idle /\ ret'.op = "get_match_stats" /\ ret'.use_cache) =>
            LET cache_key == MatchKey(ret'.fixture_id)
            IN  IF cache_key \in DOMAIN cache
                THEN /\ ret'.requests = 0
                     /\ ret'.data = LoadMatch(cache[cache_key])
                     /\ cache' = cache
                ELSE /\ ret'.requests = 5
                     /\ DOMAIN cache' = DOMAIN cache \cup {cache_key}
                     /\ LoadMatch(cache'[cache_key]) = ret'.data
                     /\ \A k \in DOMAIN cache : cache'[k] = cache[k]]_vars
    /\ [](FetchedCached =>
            \A api \in ApiAnswers :
                LET second == get_match_stats(cache, ret.fixture_id, TRUE, api)
                IN  /\ second.data = ret.data
                    /\ second.requests = 0
                    /\ second.files = cache)
C23_Witness ==
    /\ FetchedCached
    /\ ret.requests = 0
    /\ ret.data.fixture = Played
    /\ IsNone(ret.data.events)

\* C24: the on-disk cache is append-only: over any sequence of
\* get_match_stats, get_last_matches and get_head_to_head calls, with any
\* use_cache flag, an entry once written is never changed or removed.
C24_AppendOnly ==
    [][\A k \in DOMAIN cache : k \in DOMAIN cache' /\ cache'[k] = cache[k]]_vars

\* C26: get_last_matches(team_id, limit) returns at most limit matches, and
\* the same list whether it is fetched on a cache miss or served from the
\* cache.
C26_AtMostLimit ==
    Listed =>
        /\ Len(ret.matches) <= ret.limit
        /\ (ret.requests = 1 /\ ret.matches # <<>>) =>
               \A response \in ListResponses :
                   get_last_matches(cache, ret.team_id, ret.limit, TRUE, response).matches
                       = ret.matches

\* C29: a cache miss writes the entry whatever the requests answered, so
\* after one call in which every request failed, every later use_cache call
\* for that id returns a record whose fixture, statistics, events, lineups
\* and predictions are all null and issues no API request.
C29_FailureIsCached ==
    [][\A id \in FixtureIds :
          LET cache_key == MatchKey(id)
              failed(files) == /\ cache_key \in DOMAIN files
                               /\ AllNull(LoadMatch(files[cache_key]))
              called == /\ ret = Idle
                        /\ ret'.op = "get_match_stats"
                        /\ ret'.fixture_id = id
          IN  /\ (called /\ ret'.answers = Some(AllFailed)) => failed(cache')
              /\ failed(cache) =>
                     /\ failed(cache')
                     /\ (called /\ ret'.use_cache) =>
                            (ret'.requests = 0 /\ AllNull(ret'.data))]_vars

\* A pipeline run is in progress or has just ended; the order of the graph.
InRun == run.node # "none"
NodeOrder == <<"scout", "analyst", "visualizer", "writer">>
SuccessStatuses ==
    <<"starting", "scout_complete", "analyst_complete", "visualizer_complete", "complete">>
ScoutError == InRun /\ Len(run.statuses) >= 2 /\ run.statuses[2] = "error"

C27_WriterCompletes ==
    (InRun /\ Len(run.executed) = Len(NodeOrder)) =>
        /\ run.node = "end"
        /\ run.state.status = "complete"
        /\ ~IsNone(run.state.report_markdown)
        /\ Val(run.state.report_markdown) # ""
        /\ run.state.fixture_id \in reports

\* C28: if the scout node ends with status error, the run never reaches
\* status complete and the writer writes no report; a state with status
\* complete has an empty errors list.
C28_ErrorNeverCompletes ==
    /\ ScoutError =>
           /\ run.state.status # "complete"
           /\ run.node # "end"
           /\ Len(run.executed) < Len(NodeOrder)
    /\ (InRun /\ run.state.status = "complete") => run.state.errors = <<>>
C28_Witness ==
    /\ ScoutError
    /\ run.node = "failed"
    /\ run.statuses = <<"starting", "error", "error">>
    /\ run.executed = <<"scout", "analyst", "visualizer">>
    /\ Len(run.state.errors) = 2

====
